---- MODULE Spec2Model ----
(***************************************************************************)
(* Key adapter, signer factory and signature verifier of the unified       *)
(* Algorand wallet (src/src/web3auth/algorandAdapter.ts and                *)
(* src/src/web3auth/web3authIntegration.ts), under Spec; the Web3Auth      *)
(* instance holder (src/src/web3auth/web3authConfig.ts) and the session    *)
(* container Web3AuthProvider (web3authIntegration.ts), under SpecSession. *)
(*                                                                         *)
(* An async function runs without interruption from one await to the       *)
(* next; each such stretch is one action, and the continuations of         *)
(* different calls interleave in any order. A useState setter is taken to  *)
(* write its value at once. The Web3Auth SDK is an environment: initModal, *)
(* connect, getUserInfo and logout resolve or throw as they please, except *)
(* that connect gives a provider only on an instance whose initModal has   *)
(* completed. refreshUserInfo is left out.                                 *)
(*                                                                         *)
(* JavaScript values are modelled as follows.                              *)
(*   Uint8Array / Buffer : a sequence of integers 0..255                   *)
(*   string              : a sequence of one-character strings             *)
(*   Error               : [isError |-> TRUE, message |-> <<fragments>>]   *)
(*   a thrown non-Error  : [isError |-> FALSE, value |-> ...]              *)
(*   a settled promise / a call that returns or throws :                   *)
(*        [kind |-> "fulfilled", value |-> v] or                           *)
(*        [kind |-> "rejected", reason |-> e]                              *)
(* The algosdk and Buffer primitives the code calls are modelled by what   *)
(* they compute (bit regrouping, checksums, length checks); the two hash   *)
(* functions (SHA-512/256) and the Ed25519 key derivation are replaced by  *)
(* fixed deterministic stand-ins of the same shape.                        *)
(***************************************************************************)
EXTENDS Integers, Sequences

\* ------------------------------------------------------------------ bounds
\* Provider key material is generated from MaxPattern + 1 byte patterns.
MaxPattern == 1
\* Longest key material, in bytes beyond the 32 the adapter keeps.
ExtraBytes == 1
\* Longest batch handed to a signer.
MaxBatch == 2

\* --------------------------------------------------------------- constants
\* Bytes of an Ed25519 seed: privateKeyBytes.slice(0, 32).
SeedLen == 32

\* ------------------------------------------------------------ JS helpers
Undefined == [type |-> "undefined"]

Str(chars) == [type |-> "string", chars |-> chars]

Fulfilled(v) == [kind |-> "fulfilled", value |-> v]

Rejected(e) == [kind |-> "rejected", reason |-> e]

\* new Error(message)
NewError(message) == [isError |-> TRUE, message |-> message]

\* Array.prototype.slice / Uint8Array.prototype.slice(from, to) with
\* 0-based from, exclusive to, both clamped to the length.
Slice(s, from, to) ==
  LET hi == IF to < Len(s) THEN to ELSE Len(s)
  IN  IF from >= hi THEN <<>> ELSE [i \in 1..(hi - from) |-> s[from + i]]

\* ----------------------------------------------------------- hex decoding
HexDigitsLower == <<"0","1","2","3","4","5","6","7","8","9","a","b","c","d","e","f">>

HexDigitsUpper == <<"0","1","2","3","4","5","6","7","8","9","A","B","C","D","E","F">>

IsHex(c) == \E i \in 1..16 : HexDigitsLower[i] = c \/ HexDigitsUpper[i] = c

HexVal(c) == (CHOOSE i \in 1..16 : HexDigitsLower[i] = c \/ HexDigitsUpper[i] = c) - 1

\* Buffer.from(chars, 'hex'): two characters per byte; decoding stops
\* silently at the first pair that is not two hex digits, and a dangling
\* last character is dropped. It never throws.
BufferFromHex(chars) ==
  LET pairs == Len(chars) \div 2
      bad == { k \in 1..pairs : ~(IsHex(chars[2 * k - 1]) /\ IsHex(chars[2 * k])) }
      count == IF bad = {} THEN pairs
               ELSE (CHOOSE k \in bad : \A j \in bad : k <= j) - 1
  IN  [k \in 1..count |-> HexVal(chars[2 * k - 1]) * 16 + HexVal(chars[2 * k])]

\* String.prototype.startsWith('0x')
StartsWith0x(chars) == Len(chars) >= 2 /\ chars[1] = "0" /\ chars[2] = "x"

\* ------------------------------------------------- algosdk: hash stand-in
\* Stand-in for SHA-512/256 (nacl.genericHash): a deterministic digest that
\* depends on every byte and its position.
RECURSIVE HashRange(_, _, _)
HashRange(bytes, lo, hi) ==
  IF lo > hi THEN 0
  ELSE IF lo = hi THEN ((bytes[lo] + 1) * (7 * lo * lo + 13 * lo + 1)) % 65521
  ELSE LET mid == (lo + hi) \div 2
       IN  (HashRange(bytes, lo, mid) + HashRange(bytes, mid + 1, hi)) % 65521

GenericHash(bytes) == (HashRange(bytes, 1, Len(bytes)) + 5381 * (Len(bytes) + 1)) % 65521

\* ------------------------------------------------------ algosdk: mnemonic
\* s[i], or 0 past the end of s.
At(s, i) == IF i <= Len(s) THEN s[i] ELSE 0

\* toUint11Array: little-endian regrouping of 8-bit values into 11-bit
\* ones; word k holds bits 11k .. 11k+10 of the byte stream, and a last
\* partial word is kept.
ToUint11Array(buffer8) ==
  LET n == (8 * Len(buffer8) + 10) \div 11
  IN  [k \in 1..n |->
        LET q == (11 * (k - 1)) \div 8
            r == (11 * (k - 1)) % 8
            v == At(buffer8, q + 1) + 256 * At(buffer8, q + 2) + 65536 * At(buffer8, q + 3)
        IN  (v \div (2 ^ r)) % 2048]

\* toUint8Array: little-endian regrouping of 11-bit values into 8-bit
\* ones; byte k holds bits 8k .. 8k+7 of the word stream, and a last
\* partial byte is kept.
ToUint8Array(buffer11) ==
  LET n == (11 * Len(buffer11) + 7) \div 8
  IN  [k \in 1..n |->
        LET q == (8 * (k - 1)) \div 11
            r == (8 * (k - 1)) % 11
            v == At(buffer11, q + 1) + 2048 * At(buffer11, q + 2)
        IN  (v \div (2 ^ r)) % 256]

\* computeChecksum: the first 11 bits of the seed's digest, as a word index.
ComputeChecksum(seed) == GenericHash(seed) % 2048

\* A mnemonic is the sequence of its 25 word indices (the word list is a
\* bijection between 0..2047 and the English words).
\* mnemonicFromSeed: fails unless the seed has exactly 32 bytes.
MnemonicFromSeed(seed) ==
  IF Len(seed) # SeedLen
  THEN Rejected(NewError(<<"Seed length must be 32">>))
  ELSE Fulfilled(ToUint11Array(seed) \o <<ComputeChecksum(seed)>>)

\* algosdk.secretKeyToMnemonic(sk): the mnemonic of sk's first 32 bytes.
SecretKeyToMnemonic(sk) == MnemonicFromSeed(Slice(sk, 0, SeedLen))

\* seedFromMnemonic: 25 words, the first 24 regroup to 33 bytes of which the
\* last is zero, and the 25th is the checksum of the 32-byte seed.
SeedFromMnemonic(mn) ==
  IF Len(mn) # 25 \/ \E i \in 1..Len(mn) : mn[i] \notin 0..2047
  THEN Rejected(NewError(<<"the mnemonic contains a word that is not in the wordlist">>))
  ELSE LET bytes == ToUint8Array(Slice(mn, 0, 24))
       IN  IF Len(bytes) # SeedLen + 1 \/ bytes[SeedLen + 1] # 0
           THEN Rejected(NewError(<<"failed to decode mnemonic">>))
           ELSE IF ComputeChecksum(Slice(bytes, 0, SeedLen)) # mn[25]
                THEN Rejected(NewError(<<"failed to decode mnemonic">>))
                ELSE Fulfilled(Slice(bytes, 0, SeedLen))

\* --------------------------------------------- algosdk: keys and addresses
\* Stand-in for the Ed25519 public key of a seed (nacl.keyPairFromSeed):
\* 32 bytes determined by the seed.
PublicKeyOfSeed(seed) ==
  LET h == GenericHash(seed)
  IN  [i \in 1..SeedLen |-> (seed[i] * 5 + h + 7 * i) % 256]

\* The 4 checksum bytes of an address: the last 4 bytes of the key's digest.
AddressChecksum(pk) ==
  LET h == GenericHash(pk)
  IN  <<h % 256, (h \div 256) % 256, (h * 7 + 3) % 256, (h * 13 + 5) % 256>>

Base32Alphabet ==
  <<"A","B","C","D","E","F","G","H","I","J","K","L","M","N","O","P",
    "Q","R","S","T","U","V","W","X","Y","Z","2","3","4","5","6","7">>

\* base32 encoding without padding: big-endian regrouping of bytes into
\* 5-bit symbols, the last symbol padded with zero bits.
Base32Encode(bytes) ==
  LET n == (8 * Len(bytes) + 4) \div 5
  IN  [k \in 1..n |->
        LET q == (5 * (k - 1)) \div 8
            r == (5 * (k - 1)) % 8
            v == 256 * At(bytes, q + 1) + At(bytes, q + 2)
        IN  Base32Alphabet[((v \div (2 ^ (11 - r))) % 32) + 1]]

IsBase32(c) == \E i \in 1..32 : Base32Alphabet[i] = c

Base32Val(c) == (CHOOSE i \in 1..32 : Base32Alphabet[i] = c) - 1

\* base32 decoding of valid symbols: whole bytes only, leftover bits dropped.
Base32Decode(chars) ==
  LET n == (5 * Len(chars)) \div 8
      sym(i) == IF i <= Len(chars) THEN Base32Val(chars[i]) ELSE 0
  IN  [k \in 1..n |->
        LET q == (8 * (k - 1)) \div 5
            r == (8 * (k - 1)) % 5
            v == 1024 * sym(q + 1) + 32 * sym(q + 2) + sym(q + 3)
        IN  (v \div (2 ^ (7 - r))) % 256]

\* algosdk.encodeAddress(publicKey): base32 of key and checksum, 58 symbols.
EncodeAddress(pk) == Str(Base32Encode(pk \o AddressChecksum(pk)))

\* algosdk.decodeAddress(address): throws unless the argument is a string of
\* 58 base32 symbols that decode to 36 bytes whose last 4 are the checksum
\* of the first 32.
DecodeAddress(address) ==
  IF address.type # "string" \/ Len(address.chars) # 58
  THEN Rejected(NewError(<<"address seems to be malformed">>))
  ELSE IF \E i \in 1..58 : ~IsBase32(address.chars[i])
       THEN Rejected(NewError(<<"Invalid base32 characters">>))
       ELSE LET decoded == Base32Decode(address.chars)
                pk == Slice(decoded, 0, SeedLen)
                cs == Slice(decoded, SeedLen, SeedLen + 4)
            IN  IF Len(decoded) # SeedLen + 4
                THEN Rejected(NewError(<<"address seems to be malformed">>))
                ELSE IF cs # AddressChecksum(pk)
                     THEN Rejected(NewError(<<"wrong checksum for address">>))
                     ELSE Fulfilled([publicKey |-> pk, checksum |-> cs])

\* algosdk.mnemonicToSecretKey(mn): {addr, sk} of the mnemonic's seed, with
\* sk the 64 bytes seed ++ public key.
MnemonicToSecretKey(mn) ==
  LET seed == SeedFromMnemonic(mn)
  IN  IF seed.kind = "rejected" THEN seed
      ELSE LET pk == PublicKeyOfSeed(seed.value)
           IN  Fulfilled([addr |-> EncodeAddress(pk), sk |-> seed.value \o pk])

\* ------------------------------------------------- algorandAdapter.ts
Null == [type |-> "null"]

\* JavaScript truthiness of a value a provider can answer with.
Truthy(v) ==
  CASE v.type = "undefined" -> FALSE
    [] v.type = "null" -> FALSE
    [] v.type = "string" -> Len(v.chars) > 0
    [] v.type = "number" -> v.value # 0
    [] OTHER -> TRUE

\* PrivKeyUnusable without the !privKey test.
PrivKeyNotString(privKey) == privKey.type # "string"

\* !privKey || typeof privKey !== 'string'
PrivKeyUnusable(privKey) == ~Truthy(privKey) \/ privKey.type # "string"

\* privKey.startsWith('0x') ? privKey.slice(2) : privKey
CleanHexKey(chars) ==
  IF StartsWith0x(chars) THEN Slice(chars, 2, Len(chars)) ELSE chars

\* new Uint8Array(Buffer.from(cleanHexKey, 'hex'))
PrivateKeyBytes(cleanHexKey) == BufferFromHex(cleanHexKey)

\* Ed25519SecretKey copying into a zero-filled 32-byte array.
Ed25519SecretKeyPadded(privateKeyBytes) ==
  [i \in 1..SeedLen |-> IF i <= Len(privateKeyBytes) THEN privateKeyBytes[i] ELSE 0]

\* Ed25519SecretKey keeping the last 32 bytes: privateKeyBytes.slice(-32).
Ed25519SecretKeyTail(privateKeyBytes) ==
  Slice(privateKeyBytes, IF Len(privateKeyBytes) > SeedLen THEN Len(privateKeyBytes) - SeedLen ELSE 0,
        Len(privateKeyBytes))

\* privateKeyBytes.slice(0, 32)
Ed25519SecretKey(privateKeyBytes) == Slice(privateKeyBytes, 0, SeedLen)

\* AccountOf returning the 32-byte seed as the secret key.
AccountOfSeedKey(mnemonic, accountFromMnemonic) ==
  [address |-> accountFromMnemonic.addr,
   mnemonic |-> mnemonic,
   secretKey |-> Slice(accountFromMnemonic.sk, 0, SeedLen)]

\* The object getAlgorandAccount returns.
AccountOf(mnemonic, accountFromMnemonic) ==
  [address |-> accountFromMnemonic.addr,
   mnemonic |-> mnemonic,
   secretKey |-> accountFromMnemonic.sk]

\* The catch clause of getAlgorandAccount: an Error is replaced by a new
\* Error whose message embeds the cause's message; anything else is rethrown.
DeriveCatch(error) ==
  IF error.isError
  THEN Rejected(NewError(<<"Failed to derive Algorand account from Web3Auth: ">> \o error.message))
  ELSE Rejected(error)

\* The try block of getAlgorandAccount. The result carries the outcome and
\* the external calls made, in order.
DeriveTry(provider) ==
  LET asked == provider.request
  IN  IF asked.kind = "rejected"
      THEN [outcome |-> asked, calls |-> <<"request">>]
      ELSE IF PrivKeyUnusable(asked.value)
      THEN [outcome |-> Rejected(NewError(<<"Failed to retrieve private key from Web3Auth provider">>)),
            calls |-> <<"request">>]
      ELSE LET ed25519SecretKey == Ed25519SecretKey(PrivateKeyBytes(CleanHexKey(asked.value.chars)))
               mnemonic == SecretKeyToMnemonic(ed25519SecretKey)
           IN  IF mnemonic.kind = "rejected"
               THEN [outcome |-> mnemonic, calls |-> <<"request", "secretKeyToMnemonic">>]
               ELSE LET accountFromMnemonic == MnemonicToSecretKey(mnemonic.value)
                    IN  [outcome |->
                           IF accountFromMnemonic.kind = "rejected"
                           THEN accountFromMnemonic
                           ELSE Fulfilled(AccountOf(mnemonic.value, accountFromMnemonic.value)),
                         calls |-> <<"request", "secretKeyToMnemonic", "mnemonicToSecretKey">>]

\* The try/catch statement of getAlgorandAccount: what the try block
\* returned, or what the catch clause throws for what the block threw.
DeriveSettle(body) ==
  IF body.outcome.kind = "rejected"
  THEN [outcome |-> DeriveCatch(body.outcome.reason), calls |-> body.calls]
  ELSE body

\* DeriveSettle followed by the calls of a second run of the try block.
DeriveSettleTwice(body, again) ==
  IF body.outcome.kind = "fulfilled" THEN body
  ELSE [outcome |-> DeriveSettle(again).outcome, calls |-> body.calls \o again.calls]

\* getAlgorandAccount running its try block a second time after a failure.
getAlgorandAccountRetrying(provider) ==
  IF provider.type = "null"
  THEN [outcome |-> Rejected(NewError(<<"Provider is required to derive Algorand account">>)),
        calls |-> <<>>]
  ELSE DeriveSettleTwice(DeriveTry(provider), DeriveTry(provider))

\* getAlgorandAccount(provider): the settled promise and the external calls.
getAlgorandAccount(provider) ==
  IF provider.type = "null"
  THEN [outcome |-> Rejected(NewError(<<"Provider is required to derive Algorand account">>)),
        calls |-> <<>>]
  ELSE DeriveSettle(DeriveTry(provider))

\* ------------------------------------------------------------ signing
\* algosdk.signTransaction(txn, sk): throws on a transaction it cannot
\* read and on a key that is not 64 bytes; otherwise returns {txID, blob},
\* the blob holding the transaction and its signature under sk.
SignTransaction(txn, sk) ==
  CASE txn.kind = "poison" -> Rejected([isError |-> FALSE, value |-> "thrown value"])
    [] txn.kind = "malformed" -> Rejected(NewError(<<"could not decode transaction">>))
    [] Len(sk) # 2 * SeedLen -> Rejected(NewError(<<"bad secret key size">>))
    [] OTHER -> Fulfilled([txID |-> txn.id,
                           blob |-> [txn |-> txn.id,
                                     sig |-> GenericHash(sk \o <<txn.id>>)]])

\* The catch clause inside the signer's loop.
SignCatch(error) ==
  Rejected(NewError(<<"Failed to sign transaction: ">>
                    \o (IF error.isError THEN error.message ELSE <<"Unknown error">>)))

\* SignLoop with a catch clause that goes on to the next transaction.
RECURSIVE SignLoopSkipping(_, _, _, _)
SignLoopSkipping(secretKey, transactions, i, signedTxns) ==
  IF i > Len(transactions) THEN Fulfilled(signedTxns)
  ELSE LET signedTxn == SignTransaction(transactions[i], secretKey)
       IN  IF signedTxn.kind = "rejected"
           THEN SignLoopSkipping(secretKey, transactions, i + 1, signedTxns)
           ELSE SignLoopSkipping(secretKey, transactions, i + 1, Append(signedTxns, signedTxn.value.blob))

\* SignLoop with signedTxns.unshift in place of signedTxns.push.
RECURSIVE SignLoopUnshift(_, _, _, _)
SignLoopUnshift(secretKey, transactions, i, signedTxns) ==
  IF i > Len(transactions) THEN Fulfilled(signedTxns)
  ELSE LET signedTxn == SignTransaction(transactions[i], secretKey)
       IN  IF signedTxn.kind = "rejected"
           THEN SignCatch(signedTxn.reason)
           ELSE SignLoopUnshift(secretKey, transactions, i + 1, <<signedTxn.value.blob>> \o signedTxns)

\* The signer's for-loop from transaction i on, signedTxns being the
\* transactions signed so far; the array is returned after the loop.
RECURSIVE SignLoop(_, _, _, _)
SignLoop(secretKey, transactions, i, signedTxns) ==
  IF i > Len(transactions) THEN Fulfilled(signedTxns)
  ELSE LET signedTxn == SignTransaction(transactions[i], secretKey)
       IN  IF signedTxn.kind = "rejected"
           THEN SignCatch(signedTxn.reason)
           ELSE SignLoop(secretKey, transactions, i + 1, Append(signedTxns, signedTxn.value.blob))

\* The function createAlgorandSigner(secretKey) returns, applied to a batch.
SignerCall(secretKey, transactions) == SignLoop(secretKey, transactions, 1, <<>>)

\* SignerInvoke with the key wiped once the batch is signed: secretKey.fill(0).
SignerInvokeWiping(secretKey, transactions) ==
  [outcome |-> SignerCall(secretKey, transactions),
   secretKey |-> [i \in 1..Len(secretKey) |-> 0]]

\* One call of the signer: what the caller receives, and the bytes of the
\* bound key after the call (the function has no await and writes nothing
\* but its own local array, so a call runs to its end before another starts).
SignerInvoke(secretKey, transactions) ==
  [outcome |-> SignerCall(secretKey, transactions), secretKey |-> secretKey]

\* isValidAlgorandAddress accepting every string of 58 characters.
isValidAlgorandAddressByLength(address) ==
  Fulfilled(address.type = "string" /\ Len(address.chars) = 58)

\* isValidAlgorandAddress(address): false for a falsy or non-string
\* argument; otherwise true if algosdk.decodeAddress returns and false if
\* it throws.
isValidAlgorandAddress(address) ==
  IF ~Truthy(address) \/ address.type # "string" THEN Fulfilled(FALSE)
  ELSE IF DecodeAddress(address).kind = "rejected" THEN Fulfilled(FALSE)
  ELSE Fulfilled(TRUE)

\* getPublicKeyFromSecretKey returning secretKey.slice(0, 32).
getPublicKeyFromSecretKeyHead(secretKey) ==
  IF Len(secretKey) # 2 * SeedLen
  THEN [outcome |-> Rejected(NewError(<<"Invalid secret key length: expected 64 bytes, got ", Len(secretKey)>>)),
        secretKey |-> secretKey]
  ELSE [outcome |-> Fulfilled(Slice(secretKey, 0, SeedLen)), secretKey |-> secretKey]

\* getPublicKeyFromSecretKey(secretKey): what the caller receives, and the
\* argument's bytes after the call (slice copies).
getPublicKeyFromSecretKey(secretKey) ==
  IF Len(secretKey) # 2 * SeedLen
  THEN [outcome |-> Rejected(NewError(<<"Invalid secret key length: expected 64 bytes, got ", Len(secretKey)>>)),
        secretKey |-> secretKey]
  ELSE [outcome |-> Fulfilled(Slice(secretKey, SeedLen, Len(secretKey))), secretKey |-> secretKey]

\* ----------------------------------------------- web3authIntegration.ts
\* algosdk.decodeSignedTransaction(bytes): throws on bytes that are not a
\* signed transaction; otherwise the decoded object, of which the verifier
\* reads sig, sig.signers and sig.signer.
DecodeSignedTransaction(signedTransaction) ==
  IF signedTransaction.decodes
  THEN Fulfilled([sig |-> signedTransaction.sig])
  ELSE Rejected(NewError(<<"could not decode signed transaction">>))

\* TxnSigner with the operands of ?? exchanged.
TxnSignerFieldFirst(decodedTxn) ==
  LET sig == decodedTxn.sig
  IN  IF sig.type = "undefined" THEN Undefined
      ELSE IF sig.signer.type # "undefined" THEN sig.signer
      ELSE IF sig.signers.type = "undefined" THEN Undefined
      ELSE IF Len(sig.signers.items) = 0 THEN Undefined
      ELSE sig.signers.items[1]

\* decodedTxn.sig?.signers?.[0] ?? decodedTxn.sig?.signer
TxnSigner(decodedTxn) ==
  LET sig == decodedTxn.sig
      first == IF sig.type = "undefined" THEN Undefined
               ELSE IF sig.signers.type = "undefined" THEN Undefined
               ELSE IF Len(sig.signers.items) = 0 THEN Undefined
               ELSE sig.signers.items[1]
  IN  IF first.type # "undefined" THEN first
      ELSE IF sig.type = "undefined" THEN Undefined
      ELSE sig.signer

\* The try block of verifyWeb3AuthSignature.
VerifyTry(signedTransaction, account) ==
  LET decodedTxn == DecodeSignedTransaction(signedTransaction)
  IN  IF decodedTxn.kind = "rejected" THEN decodedTxn
      ELSE LET txnSigner == TxnSigner(decodedTxn.value)
           IN  IF ~Truthy(txnSigner) THEN Fulfilled(FALSE)
               ELSE IF account.type = "null"
               THEN Rejected(NewError(<<"Cannot read properties of null (reading 'address')">>))
               ELSE LET decodedAddress == DecodeAddress(account.address)
                    IN  IF decodedAddress.kind = "rejected" THEN decodedAddress
                        ELSE Fulfilled(txnSigner.bytes = decodedAddress.value.publicKey)

\* verifyWeb3AuthSignature(signedTransaction, account): whatever the try
\* block throws is caught and answered with false.
verifyWeb3AuthSignature(signedTransaction, account) ==
  LET body == VerifyTry(signedTransaction, account)
  IN  IF body.kind = "rejected" THEN Fulfilled(FALSE) ELSE body

\* ------------------------------------------------------------- inputs
\* Key material of n bytes following pattern p.
KeyBytes(n, p) == [i \in 1..n |-> (p * (37 * i + 11)) % 256]

\* The hex spelling of bytes with the given digits.
HexEncode(bytes, digits) ==
  [i \in 1..(2 * Len(bytes)) |->
     IF i % 2 = 1 THEN digits[(bytes[(i + 1) \div 2] \div 16) + 1]
                  ELSE digits[(bytes[i \div 2] % 16) + 1]]

KeyLengths == {2} \cup ((SeedLen - 1)..(SeedLen + ExtraBytes))

\* The spellings of one key: lower and upper case, with a dangling digit,
\* with a trailing non-hex pair, and with one digit replaced by a non-hex
\* character.
Spellings(bytes) ==
  LET lower == HexEncode(bytes, HexDigitsLower)
  IN  { lower,
        HexEncode(bytes, HexDigitsUpper),
        lower \o <<"a">>,
        lower \o <<"z", "z">>,
        [lower EXCEPT ![3] = "g"] }

\* The strings a provider answers with: each spelling, bare and 0x-prefixed.
KeyStrings ==
  UNION { UNION { {Str(h), Str(<<"0", "x">> \o h)} : h \in Spellings(KeyBytes(n, p)) }
          : <<n, p>> \in KeyLengths \X (0..MaxPattern) }

\* What a provider's private_key request can settle with.
Responses ==
  { Fulfilled(v) : v \in KeyStrings \cup
      {Undefined, Null, Str(<<>>), [type |-> "number", value |-> 7], [type |-> "object"]} }
  \cup { Rejected(NewError(<<"user is not logged in">>)),
         Rejected([isError |-> FALSE, value |-> "timeout"]) }

Providers == {Null} \cup { [type |-> "provider", request |-> r] : r \in Responses }

\* Unsigned transactions: readable ones, one the sign primitive rejects
\* with an Error, and one on which it throws a value that is no Error.
Transactions ==
  { [kind |-> "ok", id |-> 1], [kind |-> "ok", id |-> 2],
    [kind |-> "malformed", id |-> 3], [kind |-> "poison", id |-> 4] }

Batches == UNION { [1..n -> Transactions] : n \in 0..MaxBatch }

\* One getAlgorandAccount call: its argument, what it settled to and the
\* external calls it made.
DerivationCall(provider, r) ==
  [op |-> "getAlgorandAccount", provider |-> provider,
   outcome |-> r.outcome, calls |-> r.calls]

\* Every getAlgorandAccount call the providers allow, with what it yields.
DerivationCalls ==
  { DerivationCall(provider, getAlgorandAccount(provider)) : provider \in Providers }

\* The accounts getAlgorandAccount returns.
Accounts ==
  { [type |-> "object", address |-> c.outcome.value.address,
     mnemonic |-> c.outcome.value.mnemonic, secretKey |-> c.outcome.value.secretKey]
    : c \in { d \in DerivationCalls : d.outcome.kind = "fulfilled" } }

\* An account whose address was damaged: the last symbol changed, the last
\* symbol lost, a symbol outside the alphabet, or no address at all.
Damaged(account) ==
  LET a == account.address.chars
      n == Len(a)
  IN  { [account EXCEPT !.address = Str([a EXCEPT ![n] = IF a[n] = "A" THEN "B" ELSE "A"])],
        [account EXCEPT !.address = Str(Slice(a, 0, n - 1))],
        [account EXCEPT !.address = Str([a EXCEPT ![1] = "1"])],
        [account EXCEPT !.address = Undefined] }

\* The accounts handed to the verifier.
VerifierAccounts == Accounts \cup UNION { Damaged(a) : a \in Accounts } \cup {Null}

Bytes(b) == [type |-> "bytes", bytes |-> b]

\* Signer keys found in signed transactions: the accounts' public keys.
SignerKeys == { Bytes(Slice(a.secretKey, SeedLen, 2 * SeedLen)) : a \in Accounts }

\* The same keys with the last byte missing.
ShortKeys == { Bytes(Slice(k.bytes, 0, SeedLen - 1)) : k \in SignerKeys }

\* sig.signers: absent, empty, one key, or two different keys.
SignerLists ==
  {Undefined} \cup
  { [type |-> "array", items |-> l]
    : l \in {<<>>} \cup { <<k>> : k \in SignerKeys }
            \cup { <<k[1], k[2]>> : k \in { p \in SignerKeys \X SignerKeys : p[1] # p[2] } } }

\* Signed transaction bytes, described by what decoding them yields.
SignedTransactions ==
  { [decodes |-> FALSE, sig |-> Undefined], [decodes |-> TRUE, sig |-> Undefined] }
  \cup { [decodes |-> TRUE, sig |-> [type |-> "object", signers |-> l, signer |-> k]]
         : l \in SignerLists, k \in SignerKeys \cup ShortKeys \cup {Undefined} }

\* Every verifyWeb3AuthSignature call, with what it yields.
VerifyCalls ==
  { [op |-> "verifyWeb3AuthSignature", signedTransaction |-> st, account |-> a,
     outcome |-> verifyWeb3AuthSignature(st, a)]
    : st \in SignedTransactions, a \in VerifierAccounts }

\* The arguments handed to isValidAlgorandAddress: the verifier's
\* addresses, the empty string, and values that are no string.
AddressArguments ==
  { a.address : a \in VerifierAccounts \ {Null} }
  \cup {Str(<<>>), Null, [type |-> "number", value |-> 7], [type |-> "object"]}

\* Every isValidAlgorandAddress call, with what it yields.
ValidityCalls ==
  { [op |-> "isValidAlgorandAddress", address |-> a, outcome |-> isValidAlgorandAddress(a)]
    : a \in AddressArguments }

\* The arguments handed to getPublicKeyFromSecretKey: the accounts' secret
\* keys, whole, cut short and with one more byte.
SecretKeyArguments ==
  UNION { { a.secretKey, <<>>, Slice(a.secretKey, 0, SeedLen),
            Slice(a.secretKey, 0, 2 * SeedLen - 1), a.secretKey \o <<1>> }
          : a \in Accounts }

\* One getPublicKeyFromSecretKey call: its argument before and after, and
\* what the caller received.
PublicKeyCall(sk, r) ==
  [op |-> "getPublicKeyFromSecretKey", secretKey |-> sk,
   outcome |-> r.outcome, after |-> r.secretKey]

\* Every getPublicKeyFromSecretKey call, with what it yields.
PublicKeyCalls ==
  { PublicKeyCall(sk, getPublicKeyFromSecretKey(sk)) : sk \in SecretKeyArguments }

\* ------------------------------- web3authConfig.ts, Web3AuthProvider
\* The callers of initWeb3Auth: the container's mount effect, and
\* application code calling the exported function itself.
Callers == {"effect", "app"}

\* login() may be called again while an earlier call is still awaiting.
Logins == {"first", "second"}

\* options.clientId: absent, or one of two applications' identifiers.
ClientIds == {"", "client-a", "client-b"}

\* What an external call (initModal, connect, logout) may throw.
ThrownValues ==
  {NewError(<<"external call failed">>), [isError |-> FALSE, value |-> "thrown value"]}

\* The provider object Web3Auth hands out once connected.
SessionProvider == [type |-> "provider"]

\* What web3authInstance.getUserInfo() resolves to.
SessionUserInfo == [type |-> "object", email |-> "user@example.org"]

\* What getAlgorandAccount settles to for the session's provider: an
\* account, a rejection with an Error, a rejection with another value.
SessionDerivations ==
  { (CHOOSE c \in DerivationCalls : c.outcome.kind = "fulfilled").outcome,
    (CHOOSE c \in DerivationCalls :
       c.outcome.kind = "rejected" /\ c.outcome.reason.isError).outcome,
    (CHOOSE c \in DerivationCalls :
       c.outcome.kind = "rejected" /\ ~c.outcome.reason.isError).outcome }

\* A string held in the container's error state.
Message(m) == [type |-> "string", message |-> m]

\* err instanceof Error ? err.message : fallback
MessageOr(err, fallback) ==
  IF err.isError THEN Message(err.message) ELSE Message(<<fallback>>)

VARIABLES
  ret,        \* the last call made and what its caller received
  signerKey,  \* the secret key bound in the signer createAlgorandSigner returned
  web3authInstance, \* web3authConfig.ts: the module-level instance, or null
  web3auth,   \* the Web3Auth object's own state: initModal's progress, status
  constructed, \* how many times new Web3Auth(...) has run
  initCall,   \* each caller's initWeb3Auth call: where it stands, what it settled to
  session,    \* the container's eight useState values
  initialize, \* where the mount effect's initialize() stands
  login,      \* where each of the login() calls in flight stands
  logout,     \* where logout() stands
  authenticated \* whether an authentication has succeeded since the last logout finished

adapterVars == <<ret, signerKey>>

sessionVars ==
  <<web3authInstance, web3auth, constructed, initCall, session, initialize, login,
    logout, authenticated>>

vars == <<ret, signerKey, web3authInstance, web3auth, constructed, initCall, session,
          initialize, login, logout, authenticated>>

NoCall == [op |-> "none"]

NoSigner == [type |-> "undefined"]

Idle == [at |-> "idle"]

\* The useState initial values of Web3AuthProvider.
InitialSession ==
  [isInitialized |-> FALSE, isConnected |-> FALSE, isLoading |-> FALSE, error |-> Null,
   provider |-> Null, web3AuthInstance |-> Null, algorandAccount |-> Null,
   userInfo |-> Null]

Init ==
  /\ ret = NoCall
  /\ signerKey = NoSigner
  /\ web3authInstance = Null
  /\ web3auth = [initModal |-> "none", connected |-> FALSE]
  /\ constructed = 0
  /\ initCall = [c \in Callers |-> Idle]
  /\ session = InitialSession
  /\ initialize = [at |-> "unmounted"]
  /\ login = [l \in Logins |-> Idle]
  /\ logout = Idle
  /\ authenticated = FALSE

\* await getAlgorandAccount(provider)
GetAlgorandAccount ==
  /\ \E call \in DerivationCalls : ret' = call
  /\ UNCHANGED <<signerKey, sessionVars>>

\* createAlgorandSigner(account.secretKey)
CreateAlgorandSigner ==
  \E account \in Accounts :
    /\ signerKey' = Bytes(account.secretKey)
    /\ ret' = [op |-> "createAlgorandSigner", secretKey |-> account.secretKey]
    /\ UNCHANGED sessionVars

\* await signer(transactions)
SignBatch ==
  /\ signerKey # NoSigner
  /\ \E transactions \in Batches :
       LET r == SignerInvoke(signerKey.bytes, transactions)
       IN  /\ ret' = [op |-> "signer", secretKey |-> signerKey.bytes,
                      transactions |-> transactions, outcome |-> r.outcome]
           /\ signerKey' = Bytes(r.secretKey)
           /\ UNCHANGED sessionVars

\* verifyWeb3AuthSignature(signedTransaction, account)
VerifySignature ==
  /\ \E call \in VerifyCalls : ret' = call
  /\ UNCHANGED <<signerKey, sessionVars>>

\* isValidAlgorandAddress(address)
IsValidAddress ==
  /\ \E call \in ValidityCalls : ret' = call
  /\ UNCHANGED <<signerKey, sessionVars>>

\* getPublicKeyFromSecretKey(secretKey)
GetPublicKey ==
  /\ \E call \in PublicKeyCalls : ret' = call
  /\ UNCHANGED <<signerKey, sessionVars>>

Next ==
  \/ GetAlgorandAccount
  \/ CreateAlgorandSigner
  \/ SignBatch
  \/ VerifySignature
  \/ IsValidAddress
  \/ GetPublicKey

Spec == Init /\ [][Next]_vars

\* -------------------------------------------------------- initWeb3Auth
\* An initWeb3Auth call whose promise has settled and whose caller has not
\* resumed yet.
Settled(clientId, outcome) ==
  [at |-> "settled", clientId |-> clientId, outcome |-> outcome]

\* What initWeb3Auth returns: the instance, and how far that instance's
\* initModal() had got when it was returned.
Handed(instance, object) == [instance |-> instance, initModal |-> object.initModal]

\* if (web3authInstance) with the test never taken.
HoldsInstanceNever(instance) == FALSE

\* if (web3authInstance)
HoldsInstance(instance) == instance # Null

\* initWeb3Auth(options) from its first statement to its first await or
\* return, for caller c.
InitWeb3AuthBegin(c, clientId) ==
  IF clientId = ""
  THEN /\ initCall' = [initCall EXCEPT ![c] =
                         Settled(clientId, Rejected(NewError(<<"Web3Auth clientId is required">>)))]
       /\ UNCHANGED <<web3authInstance, web3auth, constructed>>
  ELSE IF HoldsInstance(web3authInstance)
  THEN /\ initCall' = [initCall EXCEPT ![c] =
                         Settled(clientId, Fulfilled(Handed(web3authInstance, web3auth)))]
       /\ UNCHANGED <<web3authInstance, web3auth, constructed>>
  ELSE /\ web3authInstance' = [type |-> "Web3Auth", id |-> constructed + 1, clientId |-> clientId]
       /\ constructed' = constructed + 1
       /\ web3auth' = [initModal |-> "pending", connected |-> FALSE]
       /\ initCall' = [initCall EXCEPT ![c] = [at |-> "initModal", clientId |-> clientId]]

\* await web3authInstance.initModal() settles and initWeb3Auth goes on to
\* its return statement, or throws what initModal threw. initModal may
\* find an earlier login still valid and leave the instance connected.
InitModalSettles ==
  /\ \E c \in Callers :
       /\ initCall[c].at = "initModal"
       /\ \/ \E restored \in BOOLEAN :
               /\ web3auth' = [initModal |-> "done", connected |-> restored]
               /\ initCall' = [initCall EXCEPT ![c] =
                                 Settled(initCall[c].clientId,
                                         Fulfilled(Handed(web3authInstance, web3auth')))]
          \/ \E e \in ThrownValues :
               /\ web3auth' = [initModal |-> "failed", connected |-> FALSE]
               /\ initCall' = [initCall EXCEPT ![c] = Settled(initCall[c].clientId, Rejected(e))]
  /\ UNCHANGED <<web3authInstance, constructed, session, initialize, login, logout,
                 authenticated, adapterVars>>

\* Application code calls initWeb3Auth(options) itself.
AppInitCall ==
  /\ initCall["app"].at = "idle"
  /\ \E clientId \in ClientIds : InitWeb3AuthBegin("app", clientId)
  /\ UNCHANGED <<session, initialize, login, logout, authenticated, adapterVars>>

\* The application's await initWeb3Auth(options) resumes.
AppInitReturns ==
  /\ initCall["app"].at = "settled"
  /\ initCall' = [initCall EXCEPT !["app"] = Idle]
  /\ UNCHANGED <<web3authInstance, web3auth, constructed, session, initialize, login,
                 logout, authenticated, adapterVars>>

\* ----------------------------------------------------- Web3AuthProvider
\* setProvider(null); setIsConnected(false); setAlgorandAccount(null);
\* setUserInfo(null)
Cleared(s) ==
  [s EXCEPT !.provider = Null, !.isConnected = FALSE, !.algorandAccount = Null,
            !.userInfo = Null]

\* A finally block that leaves isLoading as it is.
FinallyNothing(s) == s

\* finally { setIsLoading(false) }
Finally(s) == [s EXCEPT !.isLoading = FALSE]

\* if (info) setUserInfo(info)
WithUserInfo(s, info) == IF info = Null THEN s ELSE [s EXCEPT !.userInfo = info]

\* getWeb3AuthUserInfo's test before it awaits: an instance exists and its
\* status is 'connected'.
UserInfoAsked == web3authInstance # Null /\ web3auth.connected

\* What getWeb3AuthUserInfo resolves to: null without asking; otherwise
\* the user info, or null when getUserInfo throws.
UserInfoAnswers(asked) == IF asked THEN {SessionUserInfo, Null} ELSE {Null}

\* The mount effect runs initialize() up to await initWeb3Auth(options).
Mount ==
  /\ initialize.at = "unmounted"
  /\ \E clientId \in ClientIds : InitWeb3AuthBegin("effect", clientId)
  /\ session' = [session EXCEPT !.isLoading = TRUE, !.error = Null]
  /\ initialize' = [at |-> "initWeb3Auth"]
  /\ UNCHANGED <<login, logout, authenticated, adapterVars>>

\* initialize() resumes after await initWeb3Auth(options).
InitializeResumes ==
  /\ initialize.at = "initWeb3Auth"
  /\ initCall["effect"].at = "settled"
  /\ initCall' = [initCall EXCEPT !["effect"] = Idle]
  /\ IF initCall["effect"].outcome.kind = "rejected"
     THEN /\ session' = Finally([session EXCEPT
                           !.error = MessageOr(initCall["effect"].outcome.reason,
                                               "Failed to initialize Web3Auth"),
                           !.isInitialized = TRUE])
          /\ initialize' = [at |-> "done"]
          /\ UNCHANGED authenticated
     ELSE IF web3auth.connected
     THEN /\ session' = [session EXCEPT
                           !.web3AuthInstance = initCall["effect"].outcome.value.instance,
                           !.provider = SessionProvider, !.isConnected = TRUE]
          /\ initialize' = [at |-> "getAlgorandAccount"]
          /\ authenticated' = TRUE
     ELSE /\ session' = Finally([session EXCEPT
                           !.web3AuthInstance = initCall["effect"].outcome.value.instance,
                           !.isInitialized = TRUE])
          /\ initialize' = [at |-> "done"]
          /\ UNCHANGED authenticated
  /\ UNCHANGED <<web3authInstance, web3auth, constructed, login, logout, adapterVars>>

\* initialize() resumes after await getAlgorandAccount(web3auth.provider)
\* and calls getWeb3AuthUserInfo().
InitializeDerived ==
  /\ initialize.at = "getAlgorandAccount"
  /\ \E outcome \in SessionDerivations :
       session' = IF outcome.kind = "fulfilled"
                  THEN [session EXCEPT !.algorandAccount = outcome.value]
                  ELSE [session EXCEPT !.error =
                          Message(<<"Failed to derive Algorand account. Please reconnect.">>)]
  /\ initialize' = [at |-> "getWeb3AuthUserInfo", asked |-> UserInfoAsked]
  /\ UNCHANGED <<web3authInstance, web3auth, constructed, initCall, login, logout,
                 authenticated, adapterVars>>

\* initialize() resumes after await getWeb3AuthUserInfo() and runs to its end.
InitializeFinishes ==
  /\ initialize.at = "getWeb3AuthUserInfo"
  /\ \E info \in UserInfoAnswers(initialize.asked) :
       session' = Finally([WithUserInfo(session, info) EXCEPT !.isInitialized = TRUE])
  /\ initialize' = [at |-> "done"]
  /\ UNCHANGED <<web3authInstance, web3auth, constructed, initCall, login, logout,
                 authenticated, adapterVars>>

\* login's two tests with the second one left out.
LoginRefusalInstanceOnly(s) ==
  IF s.web3AuthInstance = Null THEN Message(<<"Web3Auth not initialized">>) ELSE Null

\* login's two tests before its try block: the message it sets and returns
\* with, or null when it goes on.
LoginRefusal(s) ==
  IF s.web3AuthInstance = Null THEN Message(<<"Web3Auth not initialized">>)
  ELSE IF ~s.isInitialized
  THEN Message(<<"Web3Auth is still initializing, please try again">>)
  ELSE Null

\* login() is called and runs up to its return or to await connect().
LoginCall(l) ==
  /\ login[l].at = "idle"
  /\ IF LoginRefusal(session) # Null
     THEN /\ session' = [session EXCEPT !.error = LoginRefusal(session)]
          /\ login' = [login EXCEPT ![l] = [at |-> "refused"]]
     ELSE /\ session' = [session EXCEPT !.isLoading = TRUE, !.error = Null]
          /\ login' = [login EXCEPT ![l] = [at |-> "connect"]]
  /\ UNCHANGED <<web3authInstance, web3auth, constructed, initCall, initialize, logout,
                 authenticated, adapterVars>>

\* The caller of a refused login() resumes.
LoginRefusedReturns(l) ==
  /\ login[l].at = "refused"
  /\ login' = [login EXCEPT ![l] = Idle]
  /\ UNCHANGED <<web3authInstance, web3auth, constructed, initCall, session, initialize,
                 logout, authenticated, adapterVars>>

\* login() resumes after await web3AuthInstance.connect(): with a provider,
\* which only an instance whose initModal() completed gives; or in its
\* outer catch clause, with what connect threw or with the Error login
\* throws itself for a missing provider.
LoginConnected(l) ==
  /\ login[l].at = "connect"
  /\ \/ /\ web3auth.initModal = "done"
        /\ web3auth' = [web3auth EXCEPT !.connected = TRUE]
        /\ session' = [session EXCEPT !.provider = SessionProvider, !.isConnected = TRUE]
        /\ login' = [login EXCEPT ![l] = [at |-> "getAlgorandAccount"]]
        /\ authenticated' = TRUE
     \/ /\ \E e \in ThrownValues \cup {NewError(<<"Failed to connect Web3Auth provider">>)} :
             session' = Finally([Cleared(session) EXCEPT !.error = MessageOr(e, "Login failed")])
        /\ login' = [login EXCEPT ![l] = Idle]
        /\ UNCHANGED <<web3auth, authenticated>>
  /\ UNCHANGED <<web3authInstance, constructed, initCall, initialize, logout, adapterVars>>

\* login() resumes after await getAlgorandAccount(web3authProvider) and
\* calls getWeb3AuthUserInfo().
LoginDerived(l) ==
  /\ login[l].at = "getAlgorandAccount"
  /\ \E outcome \in SessionDerivations :
       session' = IF outcome.kind = "fulfilled"
                  THEN [session EXCEPT !.algorandAccount = outcome.value]
                  ELSE [session EXCEPT !.error =
                          MessageOr(outcome.reason, "Failed to derive Algorand account")]
  /\ login' = [login EXCEPT ![l] = [at |-> "getWeb3AuthUserInfo", asked |-> UserInfoAsked]]
  /\ UNCHANGED <<web3authInstance, web3auth, constructed, initCall, initialize, logout,
                 authenticated, adapterVars>>

\* login() resumes after await getWeb3AuthUserInfo() and runs to its end.
LoginFinishes(l) ==
  /\ login[l].at = "getWeb3AuthUserInfo"
  /\ \E info \in UserInfoAnswers(login[l].asked) :
       session' = Finally(WithUserInfo(session, info))
  /\ login' = [login EXCEPT ![l] = Idle]
  /\ UNCHANGED <<web3authInstance, web3auth, constructed, initCall, initialize, logout,
                 authenticated, adapterVars>>

\* logout() is called and runs up to await logoutFromWeb3Auth(), which
\* calls the instance's logout() only if the module holds an instance.
LogoutCall ==
  /\ logout.at = "idle"
  /\ session' = [session EXCEPT !.isLoading = TRUE, !.error = Null]
  /\ logout' = [at |-> "logoutFromWeb3Auth", called |-> web3authInstance # Null]
  /\ UNCHANGED <<web3authInstance, web3auth, constructed, initCall, initialize, login,
                 authenticated, adapterVars>>

\* logout() resumes after await logoutFromWeb3Auth(), in its try block or
\* in its catch clause, and runs to its end.
LogoutSettles ==
  /\ logout.at = "logoutFromWeb3Auth"
  /\ \/ /\ web3auth' = IF logout.called THEN [web3auth EXCEPT !.connected = FALSE]
                       ELSE web3auth
        /\ session' = Finally(Cleared(session))
     \/ /\ logout.called
        /\ \E e \in ThrownValues :
             session' = Finally([Cleared(session) EXCEPT !.error = MessageOr(e, "Logout failed")])
        /\ UNCHANGED web3auth
  /\ logout' = Idle
  /\ authenticated' = FALSE
  /\ UNCHANGED <<web3authInstance, constructed, initCall, initialize, login, adapterVars>>

NextSession ==
  \/ AppInitCall
  \/ AppInitReturns
  \/ InitModalSettles
  \/ Mount
  \/ InitializeResumes
  \/ InitializeDerived
  \/ InitializeFinishes
  \/ \E l \in Logins : LoginCall(l)
  \/ \E l \in Logins : LoginRefusedReturns(l)
  \/ \E l \in Logins : LoginConnected(l)
  \/ \E l \in Logins : LoginDerived(l)
  \/ \E l \in Logins : LoginFinishes(l)
  \/ LogoutCall
  \/ LogoutSettles

SpecSession == Init /\ [][NextSession]_vars

\* SpecSession where every awaited call settles and every continuation
\* that can run is run; calling login, logout or initWeb3Auth is left to
\* the application.
SpecSessionFair ==
  /\ Init /\ [][NextSession]_vars
  /\ WF_vars(AppInitReturns) /\ WF_vars(InitModalSettles) /\ WF_vars(Mount)
  /\ WF_vars(InitializeResumes) /\ WF_vars(InitializeDerived)
  /\ WF_vars(InitializeFinishes) /\ WF_vars(LogoutSettles)
  /\ \A l \in Logins :
       /\ WF_vars(LoginRefusedReturns(l)) /\ WF_vars(LoginConnected(l))
       /\ WF_vars(LoginDerived(l)) /\ WF_vars(LoginFinishes(l))

\* ------------------------------------------------------------ vocabulary
\* The code throws plain Error objects; the kind of a failure is told by
\* its message. ErrorKind names the kind in the words of the error taxonomy.
DeriveWrap == "Failed to derive Algorand account from Web3Auth: "

ErrorKind(e) ==
  IF ~e.isError THEN "NotAnError"
  ELSE CASE e.message = <<"Provider is required to derive Algorand account">>
              -> "MissingProviderError"
         [] e.message = <<DeriveWrap, "Failed to retrieve private key from Web3Auth provider">>
              -> "MissingProviderError"
         [] e.message = <<DeriveWrap, "Seed length must be 32">>
              -> "KeyLengthError"
         [] e.message[1] = DeriveWrap
              -> "DerivationError"
         [] e.message[1] = "Failed to sign transaction: "
              -> "SigningError"
         [] e.message[1] = "Invalid secret key length: expected 64 bytes, got "
              -> "KeyLengthError"
         [] OTHER -> "Error"

\* The sign primitive fails on transaction k of the batch of the last call.
SignFailsAt(k) == SignTransaction(ret.transactions[k], ret.secretKey).kind = "rejected"

\* The first index (from 1) at which the sign primitive fails, 0 if none.
FirstFailure ==
  IF \E k \in 1..Len(ret.transactions) : SignFailsAt(k)
  THEN CHOOSE k \in 1..Len(ret.transactions) :
         SignFailsAt(k) /\ \A j \in 1..(k - 1) : ~SignFailsAt(j)
  ELSE 0

\* The last call was getAlgorandAccount and the provider answered with a
\* non-empty string.
DerivedFromString ==
  /\ ret.op = "getAlgorandAccount"
  /\ ret.provider.type = "provider"
  /\ ret.provider.request.kind = "fulfilled"
  /\ ret.provider.request.value.type = "string"
  /\ ret.provider.request.value.chars # <<>>

\* That string without its optional 0x prefix.
StrippedChars ==
  LET chars == ret.provider.request.value.chars
  IN  IF Len(chars) >= 2 /\ chars[1] = "0" /\ chars[2] = "x"
      THEN SubSeq(chars, 3, Len(chars)) ELSE chars

\* The bytes the adapter decodes from it.
DecodedBytes == BufferFromHex(StrippedChars)

\* An even number of characters, all of them hex digits.
WellFormedHex(chars) == Len(chars) % 2 = 0 /\ \A i \in 1..Len(chars) : IsHex(chars[i])

\* ----------------------------------------------------------------- C1
\* C1: whenever the sign primitive fails on some transaction of a batch,
\* the signer's call is rejected with an error and delivers no output
\* sequence: nothing of the transactions signed before the failure is
\* returned.
BatchAtomicity ==
  (ret.op = "signer" /\ FirstFailure # 0)
    => /\ ret.outcome.kind = "rejected"
       /\ DOMAIN ret.outcome = {"kind", "reason"}
       /\ ret.outcome.reason.isError
       /\ DOMAIN ret.outcome.reason = {"isError", "message"}

\* A batch of two whose first transaction signs and whose second fails.
BatchAtomicityWitness ==
  /\ ret.op = "signer"
  /\ Len(ret.transactions) = 2
  /\ FirstFailure = 2
  /\ ret.outcome.kind = "rejected"

\* ----------------------------------------------------------------- C2
\* C2: when signing fails on the transaction at index k of a batch, the
\* error delivered is a SigningError that carries the index k (counted
\* from 0) of the failing transaction and the underlying cause.
SigningErrorCarriesIndex ==
  (ret.op = "signer" /\ FirstFailure # 0)
    => /\ ret.outcome.kind = "rejected"
       /\ ErrorKind(ret.outcome.reason) = "SigningError"
       /\ "index" \in DOMAIN ret.outcome.reason
       /\ ret.outcome.reason.index = FirstFailure - 1
       /\ "cause" \in DOMAIN ret.outcome.reason
       /\ ret.outcome.reason.cause
            = SignTransaction(ret.transactions[FirstFailure], ret.secretKey).reason

\* ----------------------------------------------------------------- C3
\* C3: when the sign primitive succeeds on every transaction of a batch of
\* n, the signer returns exactly n signed transactions, the i-th being the
\* sign primitive's blob for the i-th input under the bound secret key
\* (n = 0 included).
SignedOutputMirrorsInput ==
  (ret.op = "signer" /\ FirstFailure = 0)
    => /\ ret.outcome.kind = "fulfilled"
       /\ Len(ret.outcome.value) = Len(ret.transactions)
       /\ \A i \in 1..Len(ret.transactions) :
            ret.outcome.value[i]
              = SignTransaction(ret.transactions[i], ret.secretKey).value.blob

\* A signed batch of two different transactions.
SignedOutputWitness ==
  /\ ret.op = "signer"
  /\ Len(ret.transactions) = 2
  /\ ret.transactions[1] # ret.transactions[2]
  /\ ret.outcome.kind = "fulfilled"
  /\ ret.outcome.value[1] # ret.outcome.value[2]

\* ----------------------------------------------------------------- C4
\* C4: when the provider's string, without its optional 0x prefix, decodes
\* to fewer than 32 bytes, getAlgorandAccount fails with the key length
\* error and returns no account: a short key is never padded.
ShortKeyRejected ==
  (DerivedFromString /\ Len(DecodedBytes) < SeedLen)
    => /\ ret.outcome.kind = "rejected"
       /\ ErrorKind(ret.outcome.reason) = "KeyLengthError"

\* Well-formed hex of 31 bytes, rejected.
ShortKeyWitness ==
  /\ DerivedFromString
  /\ WellFormedHex(StrippedChars)
  /\ Len(DecodedBytes) = SeedLen - 1
  /\ ret.outcome.kind = "rejected"

\* ----------------------------------------------------------------- C5
\* C5: when the provider's string, without its optional 0x prefix, has odd
\* length or holds a character that is no hex digit, getAlgorandAccount
\* fails (with DecodeError) and returns no account, also when the first 64
\* characters are valid hex. No error of the code names a decode failure,
\* so the formula asks only for the failure.
MalformedHexRejected ==
  (DerivedFromString /\ ~WellFormedHex(StrippedChars))
    => ret.outcome.kind = "rejected"

\* ----------------------------------------------------------------- C6
\* C6: every account getAlgorandAccount returns has a secret key of 64
\* bytes, and its address decodes to the public key secretKey[32:64].
AddressKeyAgreement ==
  (ret.op = "getAlgorandAccount" /\ ret.outcome.kind = "fulfilled")
    => LET account == ret.outcome.value
           decoded == DecodeAddress(account.address)
       IN  /\ Len(account.secretKey) = 2 * SeedLen
           /\ decoded.kind = "fulfilled"
           /\ decoded.value.publicKey = SubSeq(account.secretKey, SeedLen + 1, 2 * SeedLen)

\* An account was returned.
AddressKeyWitness ==
  /\ ret.op = "getAlgorandAccount"
  /\ ret.outcome.kind = "fulfilled"
  /\ Len(ret.outcome.value.address.chars) = 58

\* ----------------------------------------------------------------- C7
\* C7: when the provider's string, with or without a 0x prefix, decodes to
\* at least 32 bytes, getAlgorandAccount returns a mnemonic that decodes to
\* the returned secret key, whose first 32 bytes are the first 32 decoded
\* bytes; the account is the one obtained from those 32 bytes alone.
MnemonicRoundTrip ==
  (DerivedFromString /\ Len(DecodedBytes) >= SeedLen)
    => /\ ret.outcome.kind = "fulfilled"
       /\ LET account == ret.outcome.value
              again == MnemonicToSecretKey(account.mnemonic)
              seed == SubSeq(DecodedBytes, 1, SeedLen)
              alone == [type |-> "provider",
                        request |-> Fulfilled(Str(HexEncode(seed, HexDigitsLower)))]
          IN  /\ again.kind = "fulfilled"
              /\ again.value.sk = account.secretKey
              /\ SubSeq(account.secretKey, 1, SeedLen) = seed
              /\ getAlgorandAccount(alone).outcome = ret.outcome

\* A 0x-prefixed key of more than 32 bytes, not all equal, was derived.
MnemonicRoundTripWitness ==
  /\ DerivedFromString
  /\ ret.provider.request.value.chars[2] = "x"
  /\ Len(DecodedBytes) > SeedLen
  /\ DecodedBytes[1] # DecodedBytes[SeedLen + 1]
  /\ ret.outcome.kind = "fulfilled"

\* ----------------------------------------------------------------- C9
\* C9: when the provider is absent, or its private_key request yields an
\* absent, empty or non-string value, getAlgorandAccount fails with the
\* missing-provider error, returns no account, and calls neither mnemonic
\* primitive.
NoKeyMaterial ==
  /\ ret.op = "getAlgorandAccount"
  /\ \/ ret.provider.type = "null"
     \/ /\ ret.provider.request.kind = "fulfilled"
        /\ \/ ret.provider.request.value.type # "string"
           \/ ret.provider.request.value = Str(<<>>)

MissingProviderRejected ==
  NoKeyMaterial
    => /\ ret.outcome.kind = "rejected"
       /\ ErrorKind(ret.outcome.reason) = "MissingProviderError"
       /\ \A i \in 1..Len(ret.calls) :
            ret.calls[i] \notin {"secretKeyToMnemonic", "mnemonicToSecretKey"}

\* The request answered with the empty string, and the call was rejected.
MissingProviderWitness ==
  /\ NoKeyMaterial
  /\ ret.provider.type = "provider"
  /\ ret.provider.request.value = Str(<<>>)
  /\ ret.calls = <<"request">>
  /\ ret.outcome.kind = "rejected"

\* ---------------------------------------------------------------- C10
\* The signer public key a signed transaction carries: the first entry of
\* its signer list if there is one, otherwise its single-signer field.
CarriedSigner(st) ==
  IF ~st.decodes \/ st.sig.type = "undefined" THEN Undefined
  ELSE IF st.sig.signers.type = "array" /\ Len(st.sig.signers.items) >= 1
       THEN st.sig.signers.items[1]
       ELSE st.sig.signer

\* C10: verifyWeb3AuthSignature never throws; it returns true exactly when
\* the signed transaction decodes and carries a signer public key, the
\* account's address decodes, and the two keys are equal byte for byte,
\* and false in every other case.
VerifyIsKeyEquality ==
  ret.op = "verifyWeb3AuthSignature"
    => /\ ret.outcome.kind = "fulfilled"
       /\ ret.outcome.value
            = (/\ ret.signedTransaction.decodes
               /\ CarriedSigner(ret.signedTransaction).type = "bytes"
               /\ ret.account.type = "object"
               /\ DecodeAddress(ret.account.address).kind = "fulfilled"
               /\ CarriedSigner(ret.signedTransaction).bytes
                    = DecodeAddress(ret.account.address).value.publicKey)

\* Verified through the first entry of a signer list, the single-signer
\* field holding another key.
VerifyWitness ==
  /\ ret.op = "verifyWeb3AuthSignature"
  /\ ret.outcome = Fulfilled(TRUE)
  /\ ret.signedTransaction.sig.signers.type = "array"
  /\ ret.signedTransaction.sig.signer.type = "bytes"
  /\ ret.signedTransaction.sig.signer # ret.signedTransaction.sig.signers.items[1]

\* ---------------------------------------------------------------- C11
\* C11: isValidAlgorandAddress never throws; it returns true exactly when
\* the address-decode primitive succeeds on its argument, and false for
\* every other argument, the empty string and non-strings included.
ValidAddressIsDecodable ==
  ret.op = "isValidAlgorandAddress"
    => /\ ret.outcome.kind = "fulfilled"
       /\ ret.outcome.value = (DecodeAddress(ret.address).kind = "fulfilled")

\* An address of the right length and alphabet with a wrong checksum,
\* answered with false.
ValidAddressWitness ==
  /\ ret.op = "isValidAlgorandAddress"
  /\ ret.address.type = "string"
  /\ Len(ret.address.chars) = 58
  /\ \A i \in 1..58 : IsBase32(ret.address.chars[i])
  /\ ret.outcome = Fulfilled(FALSE)

\* ---------------------------------------------------------------- C12
\* C12: getPublicKeyFromSecretKey fails with the key length error for every
\* argument that is not exactly 64 bytes long, and for a 64-byte argument
\* returns the 32 bytes secretKey[32:64]; the argument is left as it was.
PublicKeyIsSecondHalf ==
  ret.op = "getPublicKeyFromSecretKey"
    => /\ ret.after = ret.secretKey
       /\ IF Len(ret.secretKey) = 64
          THEN /\ ret.outcome.kind = "fulfilled"
               /\ Len(ret.outcome.value) = 32
               /\ \A i \in 1..32 : ret.outcome.value[i] = ret.secretKey[32 + i]
          ELSE /\ ret.outcome.kind = "rejected"
               /\ ErrorKind(ret.outcome.reason) = "KeyLengthError"

\* The public half of a 64-byte key whose halves differ was returned.
PublicKeyWitness ==
  /\ ret.op = "getPublicKeyFromSecretKey"
  /\ Len(ret.secretKey) = 64
  /\ ret.outcome.kind = "fulfilled"
  /\ ret.outcome.value # SubSeq(ret.secretKey, 1, 32)

\* ---------------------------------------------------------------- C13
\* C13: one call of getAlgorandAccount asks the provider for the private
\* key at most once and runs each derivation step at most once, in order;
\* after a failure it reports the error without a second request or a
\* second derivation.
ExternalCallOrder == <<"request", "secretKeyToMnemonic", "mnemonicToSecretKey">>

NoRetries ==
  ret.op = "getAlgorandAccount"
    => /\ Len(ret.calls) <= Len(ExternalCallOrder)
       /\ \A i \in 1..Len(ret.calls) : ret.calls[i] = ExternalCallOrder[i]
       /\ ret.provider.type = "provider" => Len(ret.calls) >= 1

\* A call that failed in derivation after its single request.
NoRetriesWitness ==
  /\ ret.op = "getAlgorandAccount"
  /\ ret.outcome.kind = "rejected"
  /\ ret.calls = <<"request", "secretKeyToMnemonic">>

\* ---------------------------------------------------------------- C16
\* C16: calls on one signer do not affect each other: a batch call leaves
\* the bound secret key as it was, and what it returns is made of its own
\* batch and that key alone, whatever call came before: every signed
\* transaction in it is of its own batch, at the same place, and the same
\* batch given again to the same signer yields the same result.
SignerCallsIndependent ==
  [][ret'.op = "signer"
       => /\ signerKey' = signerKey
          /\ ret'.secretKey = signerKey.bytes
          /\ ret'.outcome.kind = "fulfilled"
               => /\ Len(ret'.outcome.value) = Len(ret'.transactions)
                  /\ \A i \in 1..Len(ret'.transactions) :
                       ret'.outcome.value[i].txn = ret'.transactions[i].id
          /\ (ret.op = "signer" /\ ret.secretKey = ret'.secretKey
                /\ ret.transactions = ret'.transactions)
               => ret'.outcome = ret.outcome
     ]_vars

\* A batch signed by a signer that still holds the key it was made with.
SignerCallsWitness ==
  /\ ret.op = "signer"
  /\ signerKey = Bytes(ret.secretKey)
  /\ ret.outcome.kind = "fulfilled"
  /\ Len(ret.outcome.value) = 1

\* ---------------------------------------------------------------- C14
\* C14: over any sequence and interleaving of initWeb3Auth calls, at most
\* one Web3Auth instance is ever constructed; every call with a non-empty
\* clientId that returns yields that one instance, whatever its own
\* options say; a call with an empty clientId always fails with the
\* clientId error, and no instance was ever made for one.
SingleInstance ==
  /\ constructed <= 1
  /\ web3authInstance # Null
       => web3authInstance.id = 1 /\ web3authInstance.clientId # ""
  /\ \A c \in Callers :
       initCall[c].at = "settled"
         => IF initCall[c].clientId = ""
            THEN initCall[c].outcome
                   = Rejected(NewError(<<"Web3Auth clientId is required">>))
            ELSE initCall[c].outcome.kind = "fulfilled"
                   => initCall[c].outcome.value.instance = web3authInstance

\* A call was handed the instance another call had constructed with
\* another clientId.
SingleInstanceWitness ==
  /\ constructed = 1
  /\ \E c \in Callers :
       /\ initCall[c].at = "settled"
       /\ initCall[c].outcome.kind = "fulfilled"
       /\ initCall[c].outcome.value.instance.clientId # initCall[c].clientId

\* ---------------------------------------------------------------- C15
\* C15: when logout finishes, whether the provider's logout succeeded or
\* threw, algorandAccount, provider and userInfo are null and isConnected
\* is false; and from then on the account goes from null to an account
\* only after an authentication (a login's connect, or an initialization
\* that finds the instance connected) has succeeded since that logout.
LogoutDiscardsAccount ==
  [][/\ (logout.at # "idle" /\ logout'.at = "idle")
          => /\ session'.algorandAccount = Null
             /\ session'.provider = Null
             /\ session'.userInfo = Null
             /\ ~session'.isConnected
     /\ (session.algorandAccount = Null /\ session'.algorandAccount # Null)
          => authenticated
    ]_vars

\* ---------------------------------------------------------------- C17
\* C17: in every reachable state of the session container, whatever the
\* interleaving of the continuations of initialization, login and logout,
\* a non-null algorandAccount comes with isConnected true and a non-null
\* provider.
AccountImpliesConnected ==
  session.algorandAccount # Null
    => session.isConnected /\ session.provider # Null

\* ---------------------------------------------------------------- C18
\* C18: every instance initWeb3Auth returns has completed initModal()
\* successfully by the time it is returned, also to a call that overlaps
\* one still awaiting initModal() and to a call made after initModal()
\* failed.
ReturnedInstanceInitialised ==
  \A c \in Callers :
    (initCall[c].at = "settled" /\ initCall[c].outcome.kind = "fulfilled")
      => initCall[c].outcome.value.initModal = "done"

\* ---------------------------------------------------------------- C19
\* C19: a login call goes on to connect() only when the container holds
\* the instance and isInitialized is true; when either fails, the call
\* sets error and nothing else: isConnected, isLoading, provider,
\* algorandAccount and userInfo (and the other values) stay as they were.
LoginGuarded ==
  [][\A l \in Logins :
       (login[l].at = "idle" /\ login'[l].at # "idle")
         => IF session.web3AuthInstance # Null /\ session.isInitialized
            THEN login'[l].at = "connect"
            ELSE /\ login'[l].at = "refused"
                 /\ session'.error # Null
                 /\ session' = [session EXCEPT !.error = session'.error]
    ]_vars

\* A login refused while initialization, holding the instance already, was
\* still deriving the account of a restored session.
LoginGuardedWitness ==
  /\ \E l \in Logins : login[l].at = "refused"
  /\ session.web3AuthInstance # Null
  /\ ~session.isInitialized
  /\ session.isLoading
  /\ session.error = Message(<<"Web3Auth is still initializing, please try again">>)

\* ---------------------------------------------------------------- C20
\* C20: if every awaited external call settles, every initialization,
\* login and logout that started finishes; an initialization that has
\* ended, well or badly, has set isInitialized; and whenever no operation
\* is in flight isLoading is false.
InFlight ==
  \/ initialize.at \notin {"unmounted", "done"}
  \/ \E l \in Logins : login[l].at \notin {"idle", "refused"}
  \/ logout.at # "idle"

OperationsFinish ==
  /\ [](~InFlight => ~session.isLoading)
  /\ [](initialize.at = "done" => session.isInitialized)
  /\ (initialize.at # "unmounted") ~> (initialize.at = "done")
  /\ \A l \in Logins : (login[l].at # "idle") ~> (login[l].at = "idle")
  /\ (logout.at # "idle") ~> (logout.at = "idle")

\* Initialization failed for want of an instance, a login and a logout
\* have run since, and nothing is in flight any more.
OperationsFinishWitness ==
  /\ ~InFlight
  /\ initialize.at = "done"
  /\ session.isInitialized
  /\ session.web3AuthInstance = Null
  /\ \E l \in Logins : login[l].at = "refused"
  /\ session.error = Null
  /\ ~session.isLoading

====
